---- MODULE Spec2Model ----
(***************************************************************************)
(* Model of src/cpp/src/EXAMPLE/boostFile.cc: main, boostFile, getBoosted.  *)
(*                                                                         *)
(* Strings are sequences of one-character strings.  Momenta and energies   *)
(* are integers in units of 0.1 GeV, so that the beam constants 500 and    *)
(* 31.3 of getBoosted are the integers 5000 and 313.                       *)
(*                                                                         *)
(* A boost along z with velocity n/d has gamma = d/M and gamma*beta = n/M, *)
(* M = sqrt(d*d - n*n), which is irrational for the beams of getBoosted.   *)
(* The model computes exactly: a LorentzVector carries a scale rt, and its *)
(* z and t components stand for z / M^rt and t / M^rt (x and y are never   *)
(* scaled, the boost being along z).  Rounding of doubles is not modelled. *)
(***************************************************************************)
EXTENDS Integers, Sequences, FiniteSets, TLC

VARIABLES
    argv,       \* the input paths argv[1..argc-1] of main
    pc,         \* the position of the program
    i,          \* main's loop variable, as an index into argv
    fs,         \* the files on disk: path -> [events, failAt]
    handles,    \* the LCIO readers and writers created, in creation order
    outpath,    \* boostFile's outpath
    pos,        \* how many events lcReader has yielded
    evt,        \* boostFile's evt: <<>> (nullptr) or <<the event in memory>>
    it,         \* how many particles the LCIterator has yielded
    nEvtRead,   \* boostFile's nEvtRead
    lv,         \* the loop body's lv: <<>> or <<four-vector>>
    boosted,    \* the loop body's boosted: <<>> or <<four-vector>>
    boost,      \* getBoosted's function-local static boost
    cout,       \* what was printed
    exitCode    \* -1 while running, then the process's exit status

vars == <<argv, pc, i, fs, handles, outpath, pos, evt, it, nEvtRead,
          lv, boosted, boost, cout, exitCode>>

(***************************************************************************)
(* Bounds.                                                                 *)
(***************************************************************************)
MaxArgs == 2    \* input paths on the command line
MaxLen == 4     \* length of the paths whose output path is derived
MaxP == 2       \* |px|, |py|, |pz| of the four-vectors boosted
MaxE == 3       \* energy of the four-vectors boosted

(***************************************************************************)
(* std::filesystem::path, as used by boostFile (POSIX, generic format).    *)
(***************************************************************************)
Slash == "/"
Dot == "."

\* The greatest index of character c in s, 0 when there is none.
RECURSIVE LastIndexOf(_, _)
LastIndexOf(s, c) ==
    IF s = <<>> THEN 0
    ELSE IF s[Len(s)] = c THEN Len(s)
    ELSE LastIndexOf(SubSeq(s, 1, Len(s) - 1), c)

\* path::filename(): what follows the last directory separator.
Filename(p) == SubSeq(p, LastIndexOf(p, Slash) + 1, Len(p))

\* Where path::stem() and path::extension() split the filename: the last
\* dot, unless the filename is "." or ".." or the dot is its first character.
ExtensionStart(name) ==
    LET d == LastIndexOf(name, Dot)
    IN  IF name = <<Dot>> \/ name = <<Dot, Dot>> \/ d <= 1
        THEN Len(name) + 1
        ELSE d

\* path::stem()
Stem(p) ==
    LET name == Filename(p) IN SubSeq(name, 1, ExtensionStart(name) - 1)

\* path::extension()
Extension(p) ==
    LET name == Filename(p) IN SubSeq(name, ExtensionStart(name), Len(name))

\* path::remove_filename(): the path up to and including the last separator.
RemoveFilename(p) == SubSeq(p, 1, LastIndexOf(p, Slash))

\* path::operator/=(r): an absolute r replaces the path; a separator is
\* added only after a filename.
PathAppend(p, r) ==
    IF r # <<>> /\ r[1] = Slash THEN r
    ELSE IF p # <<>> /\ p[Len(p)] # Slash THEN p \o <<Slash>> \o r
    ELSE p \o r

\* path::replace_filename(r): remove_filename(), then operator/=(r).
ReplaceFilename(p, r) == PathAppend(RemoveFilename(p), r)

Suffix == <<"-", "b", "o", "o", "s", "t", "e", "d">>

\* A plausible slip: the marker appended to the whole filename.
OutPathAfterExtension(fname) ==
    ReplaceFilename(fname, Filename(fname) \o Suffix)

\* boostFile, lines 50-53: the argument is evaluated on inpath before
\* replace_filename changes it.
OutPath(fname) ==
    ReplaceFilename(fname, Stem(fname) \o Suffix \o Extension(fname))

(***************************************************************************)
(* ROOT::Math::LorentzVector and ROOT::Math::Boost, as used by getBoosted. *)
(***************************************************************************)
\* ROOT::Math::PxPyPzEVector(px, py, pz, e), unscaled.
PxPyPzEVector(px, py, pz, e) == [x |-> px, y |-> py, z |-> pz, t |-> e, rt |-> 0]

\* LorentzVector::operator+
LvPlus(a, b) ==
    [x |-> a.x + b.x, y |-> a.y + b.y, z |-> a.z + b.z, t |-> a.t + b.t, rt |-> a.rt]

\* LorentzVector::BoostToCM(): the velocity -p/E, here of a vector along z,
\* as the fraction n/d.
BoostToCM(v) == [n |-> 0 - v.z, d |-> v.t]

\* Boost(beta), Boost::SetComponents for beta = (0, 0, n/d): gamma = d/M and
\* bgamma*bz*bz = gamma - 1, so XX = YY = 1, ZZ = TT = gamma, ZT = gamma*bz
\* and the other entries are 0.  zz, zt and tt are the numerators over
\* M = sqrt(m2).
Boost(beta) ==
    [init |-> TRUE, zz |-> beta.d, zt |-> beta.n, tt |-> beta.d,
     m2 |-> beta.d * beta.d - beta.n * beta.n]

\* Boost::Inverse(): the mixed space-time entries change sign.
Inverse(b) == [b EXCEPT !.zt = 0 - b.zt]

\* A plausible slip: the time row applied with the wrong sign.
BoostApplyWrongSign(b, v) ==
    [x |-> v.x, y |-> v.y,
     z |-> b.zz * v.z - b.zt * v.t,
     t |-> b.zt * v.z + b.tt * v.t,
     rt |-> v.rt + 1]

\* Boost::operator()(LorentzVector): the matrix applied to (x, y, z, t); the
\* results z and t are over one more factor M.
BoostApply(b, v) ==
    [x |-> v.x, y |-> v.y,
     z |-> b.zz * v.z + b.zt * v.t,
     t |-> b.zt * v.z + b.tt * v.t,
     rt |-> v.rt + 1]

(***************************************************************************)
(* getBoosted's function-local statics.                                    *)
(***************************************************************************)
em == PxPyPzEVector(0, 0, 5000, 5000)
ep == PxPyPzEVector(0, 0, -313, 313)
com == LvPlus(em, ep)

\* A plausible slip: the boost to the centre of mass, not inverted.
StaticBoostNotInverted == Boost(BoostToCM(com))

\* line 37
StaticBoost == Inverse(Boost(BoostToCM(com)))

\* The static before the first call of getBoosted.
NoBoost == [init |-> FALSE, zz |-> 0, zt |-> 0, tt |-> 0, m2 |-> 0]

\* The static after a call: initialised by the first call, then kept.
BoostAfterCall(b) == IF b.init THEN b ELSE StaticBoost

\* getBoosted(lv), with the static as it is when the call is made.
getBoosted(b, v) == BoostApply(BoostAfterCall(b), v)

(***************************************************************************)
(* LCIO: events, MCParticle records, files, readers and writers.           *)
(***************************************************************************)
\* An MCParticle record: its 3-momentum (z over M^rt), its energy, and what
\* stands for its other fields.
Particle(px, py, pz, e, id, par) ==
    [mom |-> [x |-> px, y |-> py, z |-> pz, rt |-> 0],
     energy |-> e, pdg |-> id, parent |-> par]

\* MCParticleImpl::setMomentum(p): the three momentum components only.
SetMomentum(particle, m) == [particle EXCEPT !.mom = m]

\* A plausible slip: the boosted energy written back too.
BoostParticleWithEnergy(b, particle) ==
    LET v == PxPyPzEVector(particle.mom.x, particle.mom.y, particle.mom.z,
                           particle.energy)
        w == getBoosted(b, v)
    IN  [SetMomentum(particle, [x |-> w.x, y |-> w.y, z |-> w.z, rt |-> w.rt])
            EXCEPT !.energy = w.t]

\* A plausible slip: the components written back in the wrong order.
BoostParticleSwapped(b, particle) ==
    LET v == PxPyPzEVector(particle.mom.x, particle.mom.y, particle.mom.z,
                           particle.energy)
        w == getBoosted(b, v)
    IN  SetMomentum(particle, [x |-> w.y, y |-> w.x, z |-> w.z, rt |-> w.rt])

\* The body of the MCParticle loop, lines 75-91: the record after it.
BoostParticle(b, particle) ==
    LET v == PxPyPzEVector(particle.mom.x, particle.mom.y, particle.mom.z,
                           particle.energy)
        w == getBoosted(b, v)
    IN  SetMomentum(particle, [x |-> w.x, y |-> w.y, z |-> w.z, rt |-> w.rt])

\* An event: its MCParticle collection and the records of its other
\* collections.
Event(particles, others) == [mc |-> particles, other |-> others]

\* A file: its events, and where reading it fails: -1 nowhere, 0 at open
\* (a malformed container), k > 0 at the k-th readNextEvent.
File(evs, bad) == [events |-> evs, failAt |-> bad]

\* LCWriter::open(name, WRITE_NEW) creates the file, empty.
NewFile == File(<<>>, -1)

\* LCFactory::createLCReader / createLCWriter, then open: the handle of
\* the arg-th input; nothing in boostFile closes or deletes it.
Handle(k, p, a) == [kind |-> k, path |-> p, arg |-> a, open |-> TRUE]

Line(m, k, p) == [msg |-> m, n |-> k, path |-> p]

(***************************************************************************)
(* The inputs of the runs checked.                                         *)
(***************************************************************************)
PathA == <<"a", ".", "s">>
PathDA == <<"d", "/", "a", ".", "s">>
PathB == <<"b">>
InputPaths == {PathA, PathDA, PathB}
\* A file that may already be where the output of PathA goes.
PathAB == <<"a", "-", "b", "o", "o", "s", "t", "e", "d", ".", "s">>

\* One event with one particle of 4-momentum (0, 0, 100, 100.5) GeV.
FileOne == File(<<Event(<<Particle(0, 0, 1000, 1005, 11, 0)>>, <<>>)>>, -1)
\* Two events: two particles and another collection, then no particle.
TwoEvents ==
    <<Event(<<Particle(1, -2, 3, 4, 22, 0), Particle(0, 5, -12, 13, -11, 1)>>, <<7>>),
      Event(<<>>, <<8, 9>>)>>
FileTwo == File(TwoEvents, -1)
FileEmpty == File(<<>>, -1)
FileBadHeader == File(<<>>, 0)
FileBadSecond == File(TwoEvents, 2)
SampleFiles == {FileOne, FileTwo, FileEmpty, FileBadHeader, FileBadSecond}

\* The disks: each input path absent or holding one of the sample files.
InputDisks == UNION {[D -> SampleFiles] : D \in SUBSET InputPaths}
Disks == InputDisks \cup {(PathAB :> FileEmpty) @@ d : d \in InputDisks}

ArgLists == UNION {[1..n -> InputPaths] : n \in 0..MaxArgs}

Locals ==
    /\ outpath = <<>>
    /\ pos = 0
    /\ evt = <<>>
    /\ it = 0
    /\ nEvtRead = 0
    /\ lv = <<>>
    /\ boosted = <<>>

Init ==
    /\ argv \in ArgLists
    /\ fs \in Disks
    /\ pc = "main"
    /\ i = 0
    /\ handles = <<>>
    /\ Locals
    /\ boost = NoBoost
    /\ cout = <<>>
    /\ exitCode = -1

(***************************************************************************)
(* main                                                                    *)
(***************************************************************************)
argc == Len(argv) + 1

\* A plausible slip: the test off by one.
TooFewArgsOffByOne == argc < 1

\* line 107
TooFewArgs == argc < 2

\* lines 107-110: the usage message and exit(1).
Usage ==
    /\ pc = "main"
    /\ TooFewArgs
    /\ cout' = Append(cout, Line("usage", 0, <<>>))
    /\ exitCode' = 1
    /\ pc' = "exit1"
    /\ UNCHANGED <<argv, i, fs, handles, outpath, pos, evt, it, nEvtRead,
                   lv, boosted, boost>>

\* A plausible slip: the loop started one argument too far.
EnterLoopFromTwo ==
    /\ pc = "main"
    /\ ~TooFewArgs
    /\ i' = 2
    /\ pc' = "for"
    /\ UNCHANGED <<argv, fs, handles, outpath, pos, evt, it, nEvtRead,
                   lv, boosted, boost, cout, exitCode>>

\* line 116: int i = 1
EnterLoop ==
    /\ pc = "main"
    /\ ~TooFewArgs
    /\ i' = 1
    /\ pc' = "for"
    /\ UNCHANGED <<argv, fs, handles, outpath, pos, evt, it, nEvtRead,
                   lv, boosted, boost, cout, exitCode>>

\* lines 116-118: i < argc, then the call boostFile(argv[i]) with fresh
\* locals.
CallBoostFile ==
    /\ pc = "for"
    /\ i < argc
    /\ pc' = "open_reader"
    /\ outpath' = <<>>
    /\ pos' = 0
    /\ evt' = <<>>
    /\ it' = 0
    /\ nEvtRead' = 0
    /\ lv' = <<>>
    /\ boosted' = <<>>
    /\ UNCHANGED <<argv, i, fs, handles, boost, cout, exitCode>>

\* lines 116, 121: the loop ends and main returns 0.
Return0 ==
    /\ pc = "for"
    /\ ~(i < argc)
    /\ pc' = "return0"
    /\ exitCode' = 0
    /\ UNCHANGED <<argv, i, fs, handles, outpath, pos, evt, it, nEvtRead,
                   lv, boosted, boost, cout>>

\* A plausible slip: the failure of one file caught, the next file taken.
UncaughtSkipsFile ==
    /\ pc' = "for"
    /\ i' = i + 1
    /\ exitCode' = exitCode

\* lines 116-119 and 43-101: no handler encloses the library calls, so an
\* exception ends the process (std::terminate, SIGABRT).
Uncaught ==
    /\ pc' = "terminated"
    /\ i' = i
    /\ exitCode' = 134

(***************************************************************************)
(* boostFile(argv[i])                                                      *)
(***************************************************************************)
fname == argv[i]

\* lines 45-47: the reader is created and opened; open throws when the
\* file is missing or its container malformed.
OpenReader ==
    /\ pc = "open_reader"
    /\ \/ /\ fname \in DOMAIN fs
          /\ fs[fname].failAt # 0
          /\ handles' = Append(handles, Handle("reader", fname, i))
          /\ cout' = Append(cout, Line("N events", Len(fs[fname].events), <<>>))
          /\ pc' = "outpath"
          /\ UNCHANGED <<i, exitCode>>
       \/ /\ ~(fname \in DOMAIN fs /\ fs[fname].failAt # 0)
          /\ handles' = Append(handles, [Handle("reader", fname, i) EXCEPT !.open = FALSE])
          /\ Uncaught
          /\ UNCHANGED cout
    /\ UNCHANGED <<argv, fs, outpath, pos, evt, it, nEvtRead, lv, boosted, boost>>

\* lines 50-54
ComputeOutPath ==
    /\ pc = "outpath"
    /\ outpath' = OutPath(fname)
    /\ cout' = Append(cout, Line("Will write", 0, OutPath(fname)))
    /\ pc' = "open_writer"
    /\ UNCHANGED <<argv, i, fs, handles, pos, evt, it, nEvtRead, lv, boosted,
                   boost, exitCode>>

\* lines 57-58: the writer is created and opened WRITE_NEW; open throws
\* when the file exists.
OpenWriter ==
    /\ pc = "open_writer"
    /\ \/ /\ outpath \notin DOMAIN fs
          /\ fs' = (outpath :> NewFile) @@ fs
          /\ handles' = Append(handles, Handle("writer", outpath, i))
          /\ pc' = "read"
          /\ UNCHANGED <<i, exitCode>>
       \/ /\ outpath \in DOMAIN fs
          /\ handles' = Append(handles, [Handle("writer", outpath, i) EXCEPT !.open = FALSE])
          /\ Uncaught
          /\ UNCHANGED fs
    /\ UNCHANGED <<argv, outpath, pos, evt, it, nEvtRead, lv, boosted, boost, cout>>

\* line 66-72: readNextEvent(UPDATE) yields the next event, nullptr at the
\* end, or throws; the LCIterator starts at the first MCParticle.  At
\* nullptr boostFile returns (line 101) and main's i++ follows.
ReadNextEvent ==
    /\ pc = "read"
    /\ \/ /\ fs[fname].failAt # pos + 1
          /\ pos < Len(fs[fname].events)
          /\ evt' = <<fs[fname].events[pos + 1]>>
          /\ pos' = pos + 1
          /\ it' = 0
          /\ cout' = Append(cout, Line("Event", nEvtRead, <<>>))
          /\ pc' = "particles"
          /\ UNCHANGED <<i, exitCode>>
       \/ /\ fs[fname].failAt # pos + 1
          /\ pos >= Len(fs[fname].events)
          /\ evt' = <<>>
          /\ pc' = "for"
          /\ i' = i + 1
          /\ UNCHANGED <<pos, it, cout, exitCode>>
       \/ /\ fs[fname].failAt = pos + 1
          /\ Uncaught
          /\ UNCHANGED <<pos, evt, it, cout>>
    /\ UNCHANGED <<argv, fs, handles, outpath, nEvtRead, lv, boosted, boost>>

\* lines 73-92: it.next() yields the next particle, whose momentum is
\* boosted and overwritten, or nullptr, which ends the loop.
NextParticle ==
    /\ pc = "particles"
    /\ \/ /\ it < Len(evt[1].mc)
          /\ LET particle == evt[1].mc[it + 1]
                 v == PxPyPzEVector(particle.mom.x, particle.mom.y,
                                    particle.mom.z, particle.energy)
             IN  /\ lv' = <<v>>
                 /\ boosted' = <<getBoosted(boost, v)>>
                 /\ evt' = <<[evt[1] EXCEPT !.mc[it + 1] = BoostParticle(boost, particle)]>>
          /\ boost' = BoostAfterCall(boost)
          /\ it' = it + 1
          /\ pc' = "particles"
       \/ /\ it >= Len(evt[1].mc)
          /\ pc' = "write"
          /\ UNCHANGED <<evt, it, lv, boosted, boost>>
    /\ UNCHANGED <<argv, i, fs, handles, outpath, pos, nEvtRead, cout, exitCode>>

\* A plausible slip: the event written a second time.
WriteEventTwice ==
    /\ pc = "write"
    /\ fs' = [fs EXCEPT ![outpath].events = Append(Append(@, evt[1]), evt[1])]
    /\ nEvtRead' = nEvtRead + 1
    /\ pc' = "read"
    /\ UNCHANGED <<argv, i, handles, outpath, pos, evt, it, lv, boosted, boost,
                   cout, exitCode>>

\* lines 94-96: the event in memory is written and counted.
WriteEvent ==
    /\ pc = "write"
    /\ fs' = [fs EXCEPT ![outpath].events = Append(@, evt[1])]
    /\ nEvtRead' = nEvtRead + 1
    /\ pc' = "read"
    /\ UNCHANGED <<argv, i, handles, outpath, pos, evt, it, lv, boosted, boost,
                   cout, exitCode>>

Next ==
    \/ Usage
    \/ EnterLoop
    \/ CallBoostFile
    \/ Return0
    \/ OpenReader
    \/ ComputeOutPath
    \/ OpenWriter
    \/ ReadNextEvent
    \/ NextParticle
    \/ WriteEvent

Spec == Init /\ [][Next]_vars

(***************************************************************************)
(* The derivation of the output path alone: boostFile at line 50, its      *)
(* reader open on any path that can name a file.                           *)
(***************************************************************************)
Alphabet == {"/", ".", "a", "b"}
RunPath ==
    <<"/", "a", "/", "b", "/", "r", "u", "n", "0", "1", ".", "s", "l", "c", "i", "o">>
RunTestPath ==
    <<"r", "u", "n", ".", "t", "e", "s", "t", ".", "s", "l", "c", "i", "o">>

\* The paths that can name a file: with a filename, which is not the
\* directory entry "." or ".." (the reader opens no directory).
FilePaths ==
    {p \in UNION {[1..n -> Alphabet] : n \in 1..MaxLen} \cup {RunPath, RunTestPath} :
        /\ Filename(p) # <<>>
        /\ Filename(p) # <<Dot>>
        /\ Filename(p) # <<Dot, Dot>>}

InitPath ==
    /\ argv \in {<<p>> : p \in FilePaths}
    /\ fs = (argv[1] :> FileEmpty)
    /\ pc = "outpath"
    /\ i = 1
    /\ handles = <<Handle("reader", argv[1], 1)>>
    /\ Locals
    /\ boost = NoBoost
    /\ cout = <<Line("N events", 0, <<>>)>>
    /\ exitCode = -1

SpecPath == InitPath /\ [][ComputeOutPath]_vars

(***************************************************************************)
(* The MCParticle loop alone: boostFile at line 73, on the first event of  *)
(* a file of one event with one particle of any small 4-momentum.          *)
(***************************************************************************)
SmallParticles ==
    {Particle(px, py, pz, e, 11, 0) :
        px \in -MaxP..MaxP, py \in -MaxP..MaxP, pz \in -MaxP..MaxP, e \in 0..MaxE}

InitBoost ==
    /\ argv = <<PathA>>
    /\ \E particle \in SmallParticles :
          /\ fs = (PathA :> File(<<Event(<<particle>>, <<>>)>>, -1))
                    @@ (OutPath(PathA) :> NewFile)
          /\ evt = <<Event(<<particle>>, <<>>)>>
    /\ pc = "particles"
    /\ i = 1
    /\ handles = <<Handle("reader", PathA, 1), Handle("writer", OutPath(PathA), 1)>>
    /\ outpath = OutPath(PathA)
    /\ pos = 1
    /\ it = 0
    /\ nEvtRead = 0
    /\ lv = <<>>
    /\ boosted = <<>>
    /\ boost = NoBoost
    /\ cout = <<Line("N events", 1, <<>>), Line("Will write", 0, OutPath(PathA)),
                Line("Event", 0, <<>>)>>
    /\ exitCode = -1

SpecBoost == InitBoost /\ [][NextParticle]_vars

(***************************************************************************)
(* What the properties below speak of.                                     *)
(***************************************************************************)
Args == 1..Len(argv)
InFile(j) == fs[argv[j]]
OutFile(j) == fs[OutPath(argv[j])]
HandleSet == {handles[k] : k \in 1..Len(handles)}
OpenHandles == {k \in 1..Len(handles) : handles[k].open}
HasReader(j) == \E h \in HandleSet : h.kind = "reader" /\ h.arg = j /\ h.open
HasWriter(j) == \E h \in HandleSet : h.kind = "writer" /\ h.arg = j /\ h.open
InBoostFile == pc \in {"open_reader", "outpath", "open_writer", "read", "particles", "write"}

\* The 3-momentum the fixed transform gives a record: the spatial components
\* of the transform applied to (px, py, pz, E) of the record as it was read.
BoostedMomentum(particle) ==
    LET w == BoostApply(StaticBoost,
                        [x |-> particle.mom.x, y |-> particle.mom.y,
                         z |-> particle.mom.z, t |-> particle.energy, rt |-> 0])
    IN  [x |-> w.x, y |-> w.y, z |-> w.z, rt |-> w.rt]

\* The event that must be written for an event read.
ExpectedEvent(e) ==
    [e EXCEPT !.mc = [k \in 1..Len(e.mc) |->
                        [e.mc[k] EXCEPT !.mom = BoostedMomentum(e.mc[k])]]]

\* The output of the j-th input holds its events, all of them, in order.
OutputComplete(j) ==
    /\ OutPath(argv[j]) \in DOMAIN fs
    /\ OutFile(j).events =
         [n \in 1..Len(InFile(j).events) |-> ExpectedEvent(InFile(j).events[n])]

\* C1: every MCParticle record of every event written has as 3-momentum the
\* spatial components of the fixed transform applied to the four-vector of
\* that record's input momentum and energy; in the event in memory the
\* records the iterator has yielded are transformed, once, and the others
\* are as read.
C1_MomentumBoostedOnce ==
    /\ \A j \in Args : HasWriter(j) =>
          /\ Len(OutFile(j).events) <= Len(InFile(j).events)
          /\ \A n \in 1..Len(OutFile(j).events) :
                /\ Len(OutFile(j).events[n].mc) = Len(InFile(j).events[n].mc)
                /\ \A k \in 1..Len(OutFile(j).events[n].mc) :
                      OutFile(j).events[n].mc[k].mom =
                          BoostedMomentum(InFile(j).events[n].mc[k])
    /\ pc \in {"particles", "write"} =>
          /\ Len(evt[1].mc) = Len(InFile(i).events[pos].mc)
          /\ \A k \in 1..Len(evt[1].mc) :
                evt[1].mc[k].mom =
                    IF k <= it THEN BoostedMomentum(InFile(i).events[pos].mc[k])
                    ELSE InFile(i).events[pos].mc[k].mom

\* The end-to-end scenario: one event, one particle (0, 0, 100, 100.5) GeV,
\* written with pz = (5313*1000 + 4687*1005) / M.
C1_Witness ==
    /\ exitCode = 0
    /\ \E j \in Args :
          /\ HasWriter(j)
          /\ InFile(j) = FileOne
          /\ Len(OutFile(j).events) = 1
          /\ OutFile(j).events[1].mc[1].mom = [x |-> 0, y |-> 0, z |-> 10023435, rt |-> 1]

(***************************************************************************)
(* C2: the output path.                                                    *)
(***************************************************************************)
\* The last place of character c in s at or after place from, 0 if none.
LastPlace(s, c, from) ==
    IF \E k \in from..Len(s) : s[k] = c
    THEN CHOOSE k \in from..Len(s) : s[k] = c /\ \A m \in (k + 1)..Len(s) : s[m] # c
    ELSE 0

DirOf(p) == SubSeq(p, 1, LastPlace(p, Slash, 1))
NameOf(p) == SubSeq(p, LastPlace(p, Slash, 1) + 1, Len(p))

\* The name with the marker put before the part from the dot at place d on
\* (at the end when d = 0).
MarkedAt(name, d) ==
    IF d = 0 THEN name \o Suffix
    ELSE SubSeq(name, 1, d - 1) \o Suffix \o SubSeq(name, d, Len(name))

RunBoosted ==
    <<"/", "a", "/", "b", "/", "r", "u", "n", "0", "1",
      "-", "b", "o", "o", "s", "t", "e", "d", ".", "s", "l", "c", "i", "o">>
RunTestBoosted ==
    <<"r", "u", "n", ".", "t", "e", "s", "t",
      "-", "b", "o", "o", "s", "t", "e", "d", ".", "s", "l", "c", "i", "o">>

\* C2 as stated: the output path is the directory joined with stem, marker
\* and extension, the extension being the part of the filename from its
\* last dot on.
C2_ExtensionFromLastDot ==
    pc = "open_writer" =>
        outpath = DirOf(fname) \o MarkedAt(NameOf(fname), LastPlace(NameOf(fname), Dot, 1))

\* Where the extension of a filename starts, 0 when it has none: at its
\* last dot, unless that dot is its first character or the name is "..".
InnerDot(name) == IF name = <<Dot, Dot>> THEN 0 ELSE LastPlace(name, Dot, 2)

\* C2, amended: the same, except that a dot that is the first character of
\* the filename starts no extension, and the filename ".." has none (the
\* marker then goes to the end of the name); "/a/b/run01.slcio" and
\* "run.test.slcio" give the paths stated.
C2_ExtensionFromLastInnerDot ==
    pc = "open_writer" =>
        /\ outpath = DirOf(fname) \o MarkedAt(NameOf(fname), InnerDot(NameOf(fname)))
        /\ fname = RunPath => outpath = RunBoosted
        /\ fname = RunTestPath => outpath = RunTestBoosted

C2_Witness ==
    /\ pc = "open_writer"
    /\ fname = <<"/", "a", ".", "b">>
    /\ outpath = <<"/", "a", "-", "b", "o", "o", "s", "t", "e", "d", ".", "b">>

\* C3: a run without input paths prints the usage message and exits with a
\* non-zero status, having created no reader or writer and no file.
C3_UsageBeforeAnyWork ==
    Len(argv) = 0 =>
        /\ pc \in {"main", "exit1"}
        /\ handles = <<>>
        /\ fs \in Disks
        /\ exitCode # 0
        /\ pc = "exit1" => exitCode = 1 /\ cout = <<Line("usage", 0, <<>>)>>

C3_Witness == Len(argv) = 0 /\ pc = "exit1" /\ exitCode = 1

\* C4: an event is written with as many MCParticle records as it was read
\* with, each with its energy and its other fields as read, and with the
\* records of its other collections as read.
C4_OnlyMomentumChanges ==
    \A j \in Args : HasWriter(j) =>
        \A n \in 1..Len(OutFile(j).events) :
            LET oe == OutFile(j).events[n]
                ie == InFile(j).events[n]
            IN  /\ oe.other = ie.other
                /\ Len(oe.mc) = Len(ie.mc)
                /\ \A k \in 1..Len(oe.mc) :
                      /\ oe.mc[k].energy = ie.mc[k].energy
                      /\ oe.mc[k].pdg = ie.mc[k].pdg
                      /\ oe.mc[k].parent = ie.mc[k].parent

C4_Witness ==
    \E j \in Args :
        /\ HasWriter(j)
        /\ InFile(j) = FileTwo
        /\ Len(OutFile(j).events) = 2
        /\ OutFile(j).events[1].mc[2].mom # FileTwo.events[1].mc[2].mom
        /\ OutFile(j).events[1].mc[2].energy = 13

\* C5: the events of a file are taken one at a time in file order: while an
\* event is in memory the output holds exactly the events before it; it is
\* written only when all its MCParticle records are rewritten; when the
\* next is read the output holds all the events read; and once the input
\* has ended the output holds as many events as the input, in its order.
C5_OneEventAtATime ==
    /\ pc = "read" =>
          /\ Len(fs[outpath].events) = pos
          /\ nEvtRead = pos
    /\ pc \in {"particles", "write"} =>
          /\ Len(evt) = 1
          /\ Len(fs[outpath].events) = pos - 1
          /\ nEvtRead = pos - 1
    /\ pc = "write" => it = Len(evt[1].mc) /\ evt[1] = ExpectedEvent(InFile(i).events[pos])
    /\ pc \in {"read", "particles", "write"} =>
          \A n \in 1..Len(fs[outpath].events) :
              fs[outpath].events[n] = ExpectedEvent(InFile(i).events[n])
    /\ \A j \in Args :
          (HasWriter(j) /\ (j < i \/ pc = "return0")) =>
              /\ Len(OutFile(j).events) = Len(InFile(j).events)
              /\ OutputComplete(j)

C5_Witness ==
    /\ pc = "for"
    /\ i = 2
    /\ InFile(1) = FileTwo
    /\ Len(OutFile(1).events) = 2

\* C6: the inputs are taken in argument order, the output of each complete
\* before the next input is opened: the readers and writers are created in
\* the order reader 1, writer 1, reader 2, ..., none for an input not yet
\* reached, and while no failure has ended the run the outputs of all
\* earlier inputs are complete; at exit 0 every input has its own output.
C6_FilesInOrder ==
    /\ \A k \in 1..Len(handles) :
          /\ handles[k].arg = (k + 1) \div 2
          /\ handles[k].kind = IF k % 2 = 1 THEN "reader" ELSE "writer"
          /\ handles[k].arg <= i
    /\ pc # "terminated" =>
          \A j \in Args : j < i => HasReader(j) /\ HasWriter(j) /\ OutputComplete(j)
    /\ exitCode = 0 =>
          /\ \A j \in Args : HasWriter(j) /\ OutputComplete(j)
          /\ Cardinality({h \in HandleSet : h.kind = "writer" /\ h.open}) = Len(argv)
          /\ Cardinality({h.path : h \in {g \in HandleSet : g.kind = "writer"}}) = Len(argv)

C6_Witness ==
    /\ exitCode = 0
    /\ Len(argv) = 2
    /\ InFile(1) = FileTwo
    /\ InFile(2) = FileOne

\* C7: a failure at input k is not caught: the run ends there with a
\* non-zero status, no input after k is opened and no output created for
\* it, the outputs of the inputs before k are complete, and an output
\* opened for k stays on disk with the events written before the failure.
C7_FailureEndsRun ==
    /\ \A j \in Args :
          (\/ \E h \in HandleSet : h.arg = j /\ ~h.open
           \/ /\ HasWriter(j)
              /\ InFile(j).failAt > 0
              /\ ~(i = j /\ pc \in {"read", "particles", "write"}))
          => pc = "terminated" /\ i = j
    /\ pc = "terminated" =>
          /\ exitCode # 0
          /\ exitCode # -1
          /\ \A h \in HandleSet : h.arg <= i
          /\ \A j \in Args : j < i => OutputComplete(j)
          /\ HasWriter(i) =>
                /\ outpath \in DOMAIN fs
                /\ Len(fs[outpath].events) = InFile(i).failAt - 1
                /\ Len(fs[outpath].events) < Len(InFile(i).events)
                /\ \A n \in 1..Len(fs[outpath].events) :
                      fs[outpath].events[n] = ExpectedEvent(InFile(i).events[n])

C7_Witness ==
    /\ pc = "terminated"
    /\ Len(argv) = 2
    /\ i = 1
    /\ HasWriter(1)
    /\ Len(fs[outpath].events) = 1
    /\ argv[2] \in DOMAIN fs

(***************************************************************************)
(* C8, C9: the transform.                                                  *)
(***************************************************************************)
\* C8 as stated: the transform applied to the total four-momentum of the
\* beams, (0, 0, 468.7, 531.3) GeV, gives pz = 0.
C8_TotalAtRest ==
    boost.init => BoostApply(boost, com).z = 0

\* C8, amended: it is the inverse of the transform that gives the total
\* four-momentum pz = 0; the transform itself takes a vector at rest to the
\* velocity of the total, pz/E = 468.7/531.3, and gives the total
\* pz = 2 * 468.7 * 531.3 / M GeV.
C8_InverseBringsTotalToRest ==
    boost.init =>
        /\ com = [x |-> 0, y |-> 0, z |-> 4687, t |-> 5313, rt |-> 0]
        /\ BoostApply(Inverse(boost), com).z = 0
        /\ LET w == BoostApply(boost, [x |-> 0, y |-> 0, z |-> 0, t |-> 1, rt |-> 0])
           IN  w.z * com.t = w.t * com.z /\ w.t > 0
        /\ BoostApply(boost, com).z = 2 * com.z * com.t

C8_Witness == boost.init /\ boosted # <<>>

\* The invariant mass squared E^2 - |p|^2 of a four-vector whose z and t are
\* over M^rt, times m2^rt (m2 = M^2).
Mass2Scaled(v, m2) ==
    IF v.rt = 0 THEN v.t * v.t - v.z * v.z - v.x * v.x - v.y * v.y
    ELSE v.t * v.t - v.z * v.z - m2 * (v.x * v.x + v.y * v.y)

\* C9: the four-vector getBoosted returns has the invariant mass of its
\* argument, for every argument with E^2 - |p|^2 >= 0.
C9_MassPreserved ==
    (boosted # <<>> /\ Mass2Scaled(lv[1], boost.m2) >= 0) =>
        /\ boosted[1].rt = 1
        /\ Mass2Scaled(boosted[1], boost.m2) = boost.m2 * Mass2Scaled(lv[1], boost.m2)

C9_Witness ==
    /\ boosted # <<>>
    /\ lv[1] = [x |-> 1, y |-> -1, z |-> 2, t |-> 3, rt |-> 0]
    /\ boosted[1].z # lv[1].z

\* C10: no reader or writer opened for an earlier input is open when the
\* next input is opened or at normal exit, and never more than one pair is
\* open.
C10_HandlesReleased ==
    /\ Cardinality(OpenHandles) <= 2
    /\ pc \in {"open_reader", "return0"} => OpenHandles = {}

====
